---- MODULE Spec2Model ----
(***************************************************************************)
(* Model of scraper.py: the resumable, rate-limited box-art download loop  *)
(* of main(), the progress store (load_progress / save_progress), the      *)
(* fetcher (download_image) and the filename helpers.                      *)
(*                                                                         *)
(* Strings the program inspects character by character (titles, URLs) are  *)
(* tuples of one-character strings; file names, which the program only     *)
(* compares for existence, are strings.  A URL tuple stands for the part   *)
(* of the absolute URL after the site root.                                *)
(***************************************************************************)
EXTENDS Integers, Sequences, FiniteSets, TLC

(***************************************************************************)
(* Bounds of the model                                                     *)
(***************************************************************************)
\* runs of the program in one behaviour
MaxRuns == 3
\* faults of the environment in one behaviour: failed attempts (fetcher or
\* file errors), save_progress calls that raise, terminations of the process
MaxFaults == 1
\* length of the item list of SpecLong
NumLong == 21
\* covers on a page of SpecPages
MaxPageLen == 3

(***************************************************************************)
(* Program constants                                                       *)
(***************************************************************************)
\* scraper.py:37  name.lower()[:100]
MaxNameLen == 100
\* scraper.py:351  (downloaded_count + failed_count) % 10 == 0
CheckpointEvery == 10

(***************************************************************************)
(* Character helpers                                                       *)
(***************************************************************************)
Min(a, b) == IF a <= b THEN a ELSE b

UpperChars ==
  <<"A","B","C","D","E","F","G","H","I","J","K","L","M",
    "N","O","P","Q","R","S","T","U","V","W","X","Y","Z">>

LowerChars ==
  <<"a","b","c","d","e","f","g","h","i","j","k","l","m",
    "n","o","p","q","r","s","t","u","v","w","x","y","z">>

\* str.lower() on one character
LowerChar(c) ==
  IF \E k \in 1..26 : UpperChars[k] = c
  THEN LowerChars[CHOOSE k \in 1..26 : UpperChars[k] = c]
  ELSE c

\* str.lower()
Lower(s) == [k \in 1..Len(s) |-> LowerChar(s[k])]

\* the characters removed by re.sub(r'[<>:"/\\|?*]', '', name)
IllegalChars == {"<", ">", ":", "\"", "/", "\\", "|", "?", "*"}

\* the characters matched by \s and removed by str.strip()
Spaces == {" ", "\t", "\n"}

RECURSIVE LStrip(_, _)
\* drop the leading characters of s that satisfy the membership set cs
LStrip(s, cs) ==
  IF s # <<>> /\ Head(s) \in cs THEN LStrip(Tail(s), cs) ELSE s

RECURSIVE RStrip(_, _)
RStrip(s, cs) ==
  IF s # <<>> /\ s[Len(s)] \in cs THEN RStrip(SubSeq(s, 1, Len(s) - 1), cs) ELSE s

Strip(s, cs) == RStrip(LStrip(s, cs), cs)

RECURSIVE SubRuns(_, _, _)
\* re.sub(r'X+', rep, s) where X is the character class cs: every maximal
\* run of characters of cs becomes the single character rep
SubRuns(s, cs, rep) ==
  IF s = <<>> THEN <<>>
  ELSE IF Head(s) \in cs
       THEN <<rep>> \o SubRuns(LStrip(s, cs), cs, rep)
       ELSE <<Head(s)>> \o SubRuns(Tail(s), cs, rep)

RECURSIVE Join(_)
\* the string spelled by a tuple of characters
Join(s) == IF s = <<>> THEN "" ELSE Head(s) \o Join(Tail(s))

Digits == <<"0","1","2","3","4","5","6","7","8","9">>

RECURSIVE IntStr(_)
\* str(n) for n >= 0, as used by the f-string of the collision counter
IntStr(n) ==
  IF n < 10 THEN Digits[n + 1] ELSE IntStr(n \div 10) \o Digits[(n % 10) + 1]

RECURSIVE IntChars(_)
IntChars(n) ==
  IF n < 10 THEN <<Digits[n + 1]>>
  ELSE IntChars(n \div 10) \o <<Digits[(n % 10) + 1]>>

(***************************************************************************)
(* sanitize_filename, get_extension                                        *)
(***************************************************************************)
\* variant: the result is not lower-cased
sanitize_filename_keep_case(name) ==
  LET n1 == SelectSeq(name, LAMBDA c : c \notin IllegalChars)
      n2 == SubRuns(Strip(n1, Spaces), Spaces, "-")
      n3 == SubRuns(n2, {"-"}, "-")
      n4 == Strip(n3, {"-"})
  IN  SubSeq(n4, 1, Min(MaxNameLen, Len(n4)))

sanitize_filename(name) ==
  LET n1 == SelectSeq(name, LAMBDA c : c \notin IllegalChars)
      n2 == SubRuns(Strip(n1, Spaces), Spaces, "-")
      n3 == SubRuns(n2, {"-"}, "-")
      n4 == Strip(n3, {"-"})
      n5 == Lower(n4)
  IN  SubSeq(n5, 1, Min(MaxNameLen, Len(n5)))

\* index of the last occurrence of c in s, 0 when absent (str.rfind + 1)
RFind(s, c) ==
  IF \E k \in 1..Len(s) : s[k] = c
  THEN CHOOSE k \in 1..Len(s) : s[k] = c /\ \A j \in (k + 1)..Len(s) : s[j] # c
  ELSE 0

\* index of the first occurrence of a character of cs in s, Len(s)+1 when absent
FindFirst(s, cs) ==
  IF \E k \in 1..Len(s) : s[k] \in cs
  THEN CHOOSE k \in 1..Len(s) : s[k] \in cs /\ \A j \in 1..(k - 1) : s[j] \notin cs
  ELSE Len(s) + 1

\* urlparse(url).path: the URL up to its query or fragment
UrlPath(url) == SubSeq(url, 1, FindFirst(url, {"?", "#"}) - 1)

\* os.path.splitext(path)[1]: from the last dot of the last path component,
\* unless that component has nothing but dots before it
SplitExt(path) ==
  LET sep == RFind(path, "/")
      dot == RFind(path, ".")
  IN  IF dot > sep /\ \E k \in (sep + 1)..(dot - 1) : path[k] # "."
      THEN SubSeq(path, dot, Len(path))
      ELSE <<>>

AllowedExts ==
  { <<".","j","p","g">>, <<".","j","p","e","g">>, <<".","p","n","g">>,
    <<".","g","i","f">>, <<".","w","e","b","p">>, <<".","b","m","p">> }

get_extension(url) ==
  LET ext == Lower(SplitExt(UrlPath(url)))
  IN  IF ext \in AllowedExts THEN ext ELSE <<".","j","p","g">>

(***************************************************************************)
(* The pages the site can show                                             *)
(***************************************************************************)
Game(t, u) == [title |-> t, image_url |-> u]

gA == Game(<<"M","e","g","a"," ","M","a","n">>, <<"a",".","p","n","g">>)
\* another cover whose title sanitizes to the stem of gA
gB == Game(<<"m","e","g","a"," "," ","m","a","n">>, <<"b",".","P","N","G">>)
\* the cover of gA listed a second time under another alt text
gDup == Game(<<"M","M">>, <<"a",".","p","n","g">>)
gC == Game(<<"C","o","n","t","r","a",":"," ","3">>, <<"c",".","s","v","g","?","v","=","1">>)

ShortPages ==
  { <<>>, <<gA, gB>>, <<gA, gDup, gC>>, <<gC, gB, gA>> }

\* a cover whose title ends in punctuation
gE == Game(<<"m","e","g","a"," "," "," ","m","a","n","!","!">>, <<"e",".","p","n","g">>)

GamePool == {gA, gB, gDup, gC, gE}

\* every page of at most MaxPageLen covers of the pool, repetitions included
AllPages ==
  UNION { [1..n -> GamePool] : n \in 0..MaxPageLen }

\* a page of NumLong distinct covers g1, g2, ...
LongPage ==
  [k \in 1..NumLong |->
     Game(<<"G">> \o IntChars(k), IntChars(k) \o <<".","p","n","g">>)]

(***************************************************************************)
(* extract_games_from_page: deduplication by image URL                     *)
(***************************************************************************)
RECURSIVE DedupFromKeepLast(_, _, _)
\* variant: a repeated URL replaces the entry kept for it (as a dict keyed by
\* URL would)
DedupFromKeepLast(games, seen_urls, unique_games) ==
  IF games = <<>> THEN unique_games
  ELSE LET game == Head(games)
       IN  IF game.image_url \notin seen_urls
           THEN DedupFromKeepLast(Tail(games), seen_urls \cup {game.image_url},
                                  Append(unique_games, game))
           ELSE DedupFromKeepLast(Tail(games), seen_urls,
                  [k \in 1..Len(unique_games) |->
                     IF unique_games[k].image_url = game.image_url
                     THEN game ELSE unique_games[k]])

RECURSIVE DedupFrom(_, _, _)
\* the loop of lines 124-129 over games, with seen_urls and unique_games
DedupFrom(games, seen_urls, unique_games) ==
  IF games = <<>> THEN unique_games
  ELSE LET game == Head(games)
       IN  IF game.image_url \notin seen_urls
           THEN DedupFrom(Tail(games), seen_urls \cup {game.image_url},
                          Append(unique_games, game))
           ELSE DedupFrom(Tail(games), seen_urls, unique_games)

\* variant: the list is returned as found on the page
DedupNone(games) == games

Dedup(games) == DedupFrom(games, {}, <<>>)

(***************************************************************************)
(* The output directory and the collision-free path                        *)
(***************************************************************************)
FileName(safe_name, ext) == Join(safe_name) \o Join(ext)

FileNameN(safe_name, counter, ext) ==
  Join(safe_name) \o "-" \o IntStr(counter) \o Join(ext)

RECURSIVE Probe(_, _, _, _, _)
\* the while loop of lines 332-334
Probe(filepath, safe_name, ext, counter, fs) ==
  IF filepath \in DOMAIN fs
  THEN Probe(FileNameN(safe_name, counter, ext), safe_name, ext, counter + 1, fs)
  ELSE filepath

\* variant: the name is used as it is, without the collision loop
ResolvePathNoProbe(game, fs) ==
  FileName(sanitize_filename(game.title), get_extension(game.image_url))

\* lines 326-334: the path an attempt writes to, given the directory fs
ResolvePath(game, fs) ==
  LET safe_name == sanitize_filename(game.title)
      ext == get_extension(game.image_url)
  IN  Probe(FileName(safe_name, ext), safe_name, ext, 1, fs)

(***************************************************************************)
(* State                                                                   *)
(***************************************************************************)
VARIABLES
  \* ---- what survives the process ----
  page_games,       \* the covers the page lists, in page order
  durable,          \* PROGRESS_FILE: [st, rec]
  files,            \* OUTPUT_DIR: file name -> [url, complete]
  \* ---- the process ----
  pc,               \* position of main()
  progress,         \* the in-memory record
  downloaded_set,
  all_games,
  i,                \* index of the loop of line 316
  downloaded_count,
  skipped_count,
  failed_count,
  filepath,
  success,
  saveSite,         \* which save_progress call is running: "periodic" / "final"
  \* ---- environment budgets ----
  runsLeft,
  faultsLeft,
  \* ---- observation of the current run ----
  loaded,           \* the record load_progress returned
  outcomes,         \* resolved attempts of this run, in order: [url, ok]
  failKind,         \* kind of the failure of the attempt being resolved
  fetchCalls,       \* page.request.get calls of this run
  delays,           \* completed asyncio.sleep(RATE_LIMIT_DELAY) of this run
  sleptSinceFetch,  \* a delay has elapsed since the last Fetcher call
  finalSaved,       \* the save_progress of line 358 was invoked
  prev,             \* summary of the previous run
  files0            \* OUTPUT_DIR as it was when the run started

disk == <<page_games, durable, files>>
mem == <<progress, downloaded_set, all_games, i, downloaded_count,
         skipped_count, failed_count, filepath, success, saveSite>>
budgets == <<runsLeft, faultsLeft>>
obs == <<loaded, outcomes, failKind, fetchCalls, delays, sleptSinceFetch,
         finalSaved, prev, files0>>
vars == <<disk, pc, mem, budgets, obs>>

EmptyRec == [downloaded |-> <<>>, failed |-> <<>>]

Absent == [st |-> "absent", rec |-> EmptyRec]
\* an empty or partly written progress.json
Malformed == [st |-> "malformed", rec |-> EmptyRec]
Stored(rec) == [st |-> "ok", rec |-> rec]

Range(s) == { s[k] : k \in 1..Len(s) }

NoPrev == [completed |-> FALSE, downloaded |-> 0, skipped |-> 0, failed |-> 0,
           total |-> 0]

\* positions at which the process is running
Live == {"start", "extract", "loop", "fetch", "open", "write", "record",
         "save_open", "save_write", "sleep", "except"}
\* positions at which the process has ended
Ended == {"done", "failed", "fatal", "dead"}

InitWith(pages) ==
  /\ page_games \in pages
  /\ durable = Absent
  /\ files = <<>>
  /\ pc = "start"
  /\ progress = EmptyRec
  /\ downloaded_set = {}
  /\ all_games = <<>>
  /\ i = 1
  /\ downloaded_count = 0
  /\ skipped_count = 0
  /\ failed_count = 0
  /\ filepath = ""
  /\ success = FALSE
  /\ saveSite = "none"
  /\ runsLeft = MaxRuns - 1
  /\ faultsLeft = MaxFaults
  /\ loaded = EmptyRec
  /\ outcomes = <<>>
  /\ failKind = "none"
  /\ fetchCalls = 0
  /\ delays = 0
  /\ sleptSinceFetch = FALSE
  /\ finalSaved = FALSE
  /\ prev = NoPrev
  /\ files0 = <<>>

Init == InitWith(ShortPages)

InitLong == InitWith({LongPage})

InitPages == InitWith(AllPages)

(***************************************************************************)
(* main(): start of a run                                                  *)
(***************************************************************************)
\* variant: a progress file that cannot be parsed is treated as absent
LoadSilentReset ==
  /\ pc = "start"
  /\ progress' = IF durable.st = "ok" THEN durable.rec ELSE EmptyRec
  /\ downloaded_set' = Range(progress'.downloaded)
  /\ loaded' = progress'
  /\ pc' = "extract"
  /\ UNCHANGED <<disk, all_games, i, downloaded_count, skipped_count,
                 failed_count, filepath, success, saveSite, budgets,
                 outcomes, failKind, fetchCalls, delays, sleptSinceFetch,
                 finalSaved, prev, files0>>

\* lines 50-56 and 186-187: load_progress and the membership set
Load ==
  /\ pc = "start"
  /\ IF durable.st = "malformed"
     THEN \* json.loads raises; nothing catches it
          /\ pc' = "fatal"
          /\ UNCHANGED <<progress, downloaded_set, loaded>>
     ELSE /\ progress' = IF durable.st = "ok" THEN durable.rec ELSE EmptyRec
          /\ downloaded_set' = Range(progress'.downloaded)
          /\ loaded' = progress'
          /\ pc' = "extract"
  /\ UNCHANGED <<disk, all_games, i, downloaded_count, skipped_count,
                 failed_count, filepath, success, saveSite, budgets,
                 outcomes, failKind, fetchCalls, delays, sleptSinceFetch,
                 finalSaved, prev, files0>>

\* lines 295-314: the extracted list; the early return when it is empty
Extract ==
  /\ pc = "extract"
  /\ all_games' = Dedup(page_games)
  /\ pc' = IF all_games' = <<>> THEN "done" ELSE "loop"
  /\ i' = 1
  /\ downloaded_count' = 0
  /\ skipped_count' = 0
  /\ failed_count' = 0
  /\ UNCHANGED <<disk, progress, downloaded_set, filepath, success, saveSite,
                 budgets, obs>>

(***************************************************************************)
(* main(): the download loop, lines 316-355                                *)
(***************************************************************************)
\* variant: a URL recorded as failed is skipped as well
SkipTestFailedToo(game) ==
  \/ game.image_url \in downloaded_set
  \/ \E k \in 1..Len(progress.failed) : progress.failed[k].url = game.image_url

\* lines 320-323: the item is already downloaded
SkipTest(game) == game.image_url \in downloaded_set

\* variant: an item that is already there is counted as downloaded
SkipCountsDownloaded ==
  /\ pc = "loop"
  /\ i <= Len(all_games)
  /\ SkipTest(all_games[i])
  /\ downloaded_count' = downloaded_count + 1
  /\ i' = i + 1
  /\ UNCHANGED <<disk, pc, progress, downloaded_set, all_games,
                 skipped_count, failed_count, filepath, success, saveSite,
                 budgets, obs>>

\* variant: the skip step waits the rate-limit delay before it continues
SkipWithDelay ==
  /\ pc = "loop"
  /\ i <= Len(all_games)
  /\ SkipTest(all_games[i])
  /\ skipped_count' = skipped_count + 1
  /\ i' = i + 1
  /\ delays' = delays + 1
  /\ UNCHANGED <<disk, pc, progress, downloaded_set, all_games,
                 downloaded_count, failed_count, filepath, success, saveSite,
                 budgets, loaded, outcomes, failKind, fetchCalls,
                 sleptSinceFetch, finalSaved, prev, files0>>

Skip ==
  /\ pc = "loop"
  /\ i <= Len(all_games)
  /\ SkipTest(all_games[i])
  /\ skipped_count' = skipped_count + 1
  /\ i' = i + 1
  /\ UNCHANGED <<disk, pc, progress, downloaded_set, all_games,
                 downloaded_count, failed_count, filepath, success, saveSite,
                 budgets, obs>>

\* lines 325-336: the file name of the attempt
Prepare ==
  /\ pc = "loop"
  /\ i <= Len(all_games)
  /\ ~SkipTest(all_games[i])
  /\ filepath' = ResolvePath(all_games[i], files)
  /\ pc' = "fetch"
  /\ UNCHANGED <<disk, progress, downloaded_set, all_games, i,
                 downloaded_count, skipped_count, failed_count, success,
                 saveSite, budgets, obs>>

\* line 69-72: page.request.get answered with a success status and a body
FetchOk ==
  /\ pc = "fetch"
  /\ fetchCalls' = fetchCalls + 1
  /\ sleptSinceFetch' = FALSE
  /\ pc' = "open"
  /\ UNCHANGED <<disk, mem, budgets, loaded, outcomes, failKind, delays,
                 finalSaved, prev, files0>>

\* variant: the except block reports the attempt as a success
FailWithReturnsTrue(kind) ==
  /\ faultsLeft > 0
  /\ faultsLeft' = faultsLeft - 1
  /\ failKind' = kind
  /\ success' = TRUE
  /\ pc' = "record"

\* variant: a file error is raised outside the try block and aborts the run
FailWithEscalate(kind) ==
  /\ faultsLeft > 0
  /\ faultsLeft' = faultsLeft - 1
  /\ failKind' = kind
  /\ success' = FALSE
  /\ pc' = IF kind = "file" THEN "except" ELSE "record"

\* the attempt fails with the given kind: download_image returns False
FailWith(kind) ==
  /\ faultsLeft > 0
  /\ faultsLeft' = faultsLeft - 1
  /\ failKind' = kind
  /\ success' = FALSE
  /\ pc' = "record"

\* lines 76-78: a non-success HTTP status
FetchHttp ==
  /\ pc = "fetch"
  /\ FailWith("http")
  /\ fetchCalls' = fetchCalls + 1
  /\ sleptSinceFetch' = FALSE
  /\ UNCHANGED <<disk, progress, downloaded_set, all_games, i,
                 downloaded_count, skipped_count, failed_count, filepath,
                 saveSite, runsLeft, loaded, outcomes, delays,
                 finalSaved, prev, files0>>

\* lines 79-81: page.request.get or response.body raises
FetchExc ==
  /\ pc = "fetch"
  /\ FailWith("network")
  /\ fetchCalls' = fetchCalls + 1
  /\ sleptSinceFetch' = FALSE
  /\ UNCHANGED <<disk, progress, downloaded_set, all_games, i,
                 downloaded_count, skipped_count, failed_count, filepath,
                 saveSite, runsLeft, loaded, outcomes, delays,
                 finalSaved, prev, files0>>

PartialFile(url) == [url |-> url, complete |-> FALSE]
CompleteFile(url) == [url |-> url, complete |-> TRUE]

\* line 73: aiofiles.open(filepath, 'wb') creates the empty file
OpenOk ==
  /\ pc = "open"
  /\ files' = (filepath :> PartialFile(all_games[i].image_url)) @@ files
  /\ pc' = "write"
  /\ UNCHANGED <<page_games, durable, mem, budgets, obs>>

\* line 73 raises: no file is created
OpenExc ==
  /\ pc = "open"
  /\ FailWith("file")
  /\ UNCHANGED <<disk, progress, downloaded_set, all_games, i,
                 downloaded_count, skipped_count, failed_count, filepath,
                 saveSite, runsLeft, loaded, outcomes,
                 fetchCalls, delays, sleptSinceFetch, finalSaved, prev, files0>>

\* lines 74-75: the body is written and download_image returns True
WriteOk ==
  /\ pc = "write"
  /\ files' = [files EXCEPT ![filepath] = CompleteFile(all_games[i].image_url)]
  /\ success' = TRUE
  /\ pc' = "record"
  /\ UNCHANGED <<page_games, durable, progress, downloaded_set, all_games, i,
                 downloaded_count, skipped_count, failed_count, filepath,
                 saveSite, budgets, obs>>

\* line 74 raises: the file stays as it was created
WriteExc ==
  /\ pc = "write"
  /\ FailWith("file")
  /\ UNCHANGED <<disk, progress, downloaded_set, all_games, i,
                 downloaded_count, skipped_count, failed_count, filepath,
                 saveSite, runsLeft, loaded, outcomes,
                 fetchCalls, delays, sleptSinceFetch, finalSaved, prev, files0>>

\* variant: only successful downloads count towards the checkpoint
CheckpointDueDownloads(dc, fc) == dc % CheckpointEvery = 0

\* line 351: the periodic checkpoint is due
CheckpointDue(dc, fc) == (dc + fc) % CheckpointEvery = 0

\* variant: a failed attempt goes back to the loop without the delay
AfterRecordNoDelayOnFail(dc, fc, ok) ==
  IF CheckpointDue(dc, fc) THEN "save_open"
  ELSE IF ok THEN "sleep" ELSE "loop"

\* lines 350-355: where the iteration goes once the attempt is recorded
AfterRecord(dc, fc, ok) ==
  IF CheckpointDue(dc, fc) THEN "save_open" ELSE "sleep"

\* variant: a success removes the failed entries of its URL
RecordClearsFailed ==
  /\ pc = "record"
  /\ LET game == all_games[i]
     IN  IF success
         THEN /\ downloaded_count' = downloaded_count + 1
              /\ progress' = [progress EXCEPT
                     !.downloaded = Append(@, game.image_url),
                     !.failed = SelectSeq(@, LAMBDA e : e.url # game.image_url)]
              /\ UNCHANGED failed_count
         ELSE /\ failed_count' = failed_count + 1
              /\ progress' = [progress EXCEPT
                     !.failed = Append(@, [title |-> game.title,
                                           url |-> game.image_url])]
              /\ UNCHANGED downloaded_count
  /\ outcomes' = Append(outcomes, [url |-> all_games[i].image_url, ok |-> success])
  /\ failKind' = "none"
  /\ pc' = AfterRecord(downloaded_count', failed_count', success)
  /\ saveSite' = IF pc' = "save_open" THEN "periodic" ELSE saveSite
  /\ UNCHANGED <<disk, downloaded_set, all_games, i, skipped_count, filepath,
                 success, budgets, loaded, fetchCalls, delays,
                 sleptSinceFetch, finalSaved, prev, files0>>

\* lines 341-351: count the attempt, record it, decide on the checkpoint
Record ==
  /\ pc = "record"
  /\ LET game == all_games[i]
     IN  IF success
         THEN /\ downloaded_count' = downloaded_count + 1
              /\ progress' = [progress EXCEPT
                     !.downloaded = Append(@, game.image_url)]
              /\ UNCHANGED failed_count
         ELSE /\ failed_count' = failed_count + 1
              /\ progress' = [progress EXCEPT
                     !.failed = Append(@, [title |-> game.title,
                                           url |-> game.image_url])]
              /\ UNCHANGED downloaded_count
  /\ outcomes' = Append(outcomes, [url |-> all_games[i].image_url, ok |-> success])
  /\ failKind' = "none"
  /\ pc' = AfterRecord(downloaded_count', failed_count', success)
  /\ saveSite' = IF pc' = "save_open" THEN "periodic" ELSE saveSite
  /\ UNCHANGED <<disk, downloaded_set, all_games, i, skipped_count, filepath,
                 success, budgets, loaded, fetchCalls, delays,
                 sleptSinceFetch, finalSaved, prev, files0>>

\* variant: after the delay the same item is taken again
SleepNoAdvance ==
  /\ pc = "sleep"
  /\ delays' = delays + 1
  /\ sleptSinceFetch' = TRUE
  /\ pc' = "loop"
  /\ UNCHANGED <<disk, progress, downloaded_set, all_games, i,
                 downloaded_count, skipped_count, failed_count, filepath,
                 success, saveSite, budgets, loaded, outcomes, failKind,
                 fetchCalls, finalSaved, prev, files0>>

\* line 355: the rate-limit delay, then the next item
Sleep ==
  /\ pc = "sleep"
  /\ delays' = delays + 1
  /\ sleptSinceFetch' = TRUE
  /\ i' = i + 1
  /\ pc' = "loop"
  /\ UNCHANGED <<disk, progress, downloaded_set, all_games, downloaded_count,
                 skipped_count, failed_count, filepath, success, saveSite,
                 budgets, loaded, outcomes, failKind, fetchCalls, finalSaved,
                 prev, files0>>

\* variant: the run ends without the final save
LoopEndNoSave ==
  /\ pc = "loop"
  /\ i > Len(all_games)
  /\ pc' = "done"
  /\ UNCHANGED <<disk, progress, downloaded_set, all_games, i,
                 downloaded_count, skipped_count, failed_count, filepath,
                 success, saveSite, budgets, obs>>

\* line 358: the loop is over, save_progress is called a last time
LoopEnd ==
  /\ pc = "loop"
  /\ i > Len(all_games)
  /\ pc' = "save_open"
  /\ saveSite' = "final"
  /\ finalSaved' = TRUE
  /\ UNCHANGED <<disk, progress, downloaded_set, all_games, i,
                 downloaded_count, skipped_count, failed_count, filepath,
                 success, budgets, loaded, outcomes, failKind, fetchCalls,
                 delays, sleptSinceFetch, prev, files0>>

(***************************************************************************)
(* save_progress, lines 59-62                                              *)
(***************************************************************************)
\* what progress.json holds once open(PROGRESS_FILE, 'w') has returned
Opened(old) == Malformed

\* line 61: the file is opened for writing, which truncates it
SaveOpen ==
  /\ pc = "save_open"
  /\ durable' = Opened(durable)
  /\ pc' = "save_write"
  /\ UNCHANGED <<page_games, files, mem, budgets, obs>>

\* line 61 raises: the file is left as it was
SaveOpenExc ==
  /\ pc = "save_open"
  /\ faultsLeft > 0
  /\ faultsLeft' = faultsLeft - 1
  /\ pc' = "except"
  /\ UNCHANGED <<disk, mem, runsLeft, obs>>

\* line 62: the whole record is written and the file closed
SaveWrite ==
  /\ pc = "save_write"
  /\ durable' = Stored(progress)
  /\ pc' = IF saveSite = "periodic" THEN "sleep" ELSE "done"
  /\ UNCHANGED <<page_games, files, mem, budgets, obs>>

\* line 62 raises: the file keeps what was written so far
SaveWriteExc ==
  /\ pc = "save_write"
  /\ faultsLeft > 0
  /\ faultsLeft' = faultsLeft - 1
  /\ pc' = "except"
  /\ UNCHANGED <<disk, mem, runsLeft, obs>>

(***************************************************************************)
(* End of a run                                                            *)
(***************************************************************************)
\* lines 370-374: the handler prints and re-raises, the browser is closed
Except ==
  /\ pc = "except"
  /\ pc' = "failed"
  /\ UNCHANGED <<disk, mem, budgets, obs>>

\* the process is terminated from outside
Crash ==
  /\ pc \in Live
  /\ faultsLeft > 0
  /\ faultsLeft' = faultsLeft - 1
  /\ pc' = "dead"
  /\ UNCHANGED <<disk, mem, runsLeft, obs>>

\* the program is started again: lines 176-193
NewRun ==
  /\ pc \in Ended
  /\ runsLeft > 0
  /\ runsLeft' = runsLeft - 1
  /\ prev' = [completed |-> pc = "done",
              downloaded |-> downloaded_count,
              skipped |-> skipped_count,
              failed |-> failed_count,
              total |-> Len(all_games)]
  /\ pc' = "start"
  /\ progress' = EmptyRec
  /\ downloaded_set' = {}
  /\ all_games' = <<>>
  /\ i' = 1
  /\ downloaded_count' = 0
  /\ skipped_count' = 0
  /\ failed_count' = 0
  /\ filepath' = ""
  /\ success' = FALSE
  /\ saveSite' = "none"
  /\ loaded' = EmptyRec
  /\ outcomes' = <<>>
  /\ failKind' = "none"
  /\ fetchCalls' = 0
  /\ delays' = 0
  /\ sleptSinceFetch' = FALSE
  /\ finalSaved' = FALSE
  /\ files0' = files
  /\ UNCHANGED <<disk, faultsLeft>>

Next ==
  \/ Load \/ Extract
  \/ Skip \/ Prepare
  \/ FetchOk \/ FetchHttp \/ FetchExc
  \/ OpenOk \/ OpenExc \/ WriteOk \/ WriteExc
  \/ Record \/ Sleep \/ LoopEnd
  \/ SaveOpen \/ SaveOpenExc \/ SaveWrite \/ SaveWriteExc
  \/ Except \/ Crash \/ NewRun

Spec == Init /\ [][Next]_vars

SpecLong == InitLong /\ [][Next]_vars

SpecPages == InitPages /\ [][Next]_vars

\* the steps the program takes by itself once it is where they start:
\* every call of lines 186-358 returns, by its result or by the handled
\* failure that FetchHttp, FetchExc, OpenExc and WriteExc stand for
Run ==
  \/ Load \/ Extract
  \/ Skip
  \/ FetchOk \/ OpenOk \/ WriteOk
  \/ Record \/ Sleep \/ LoopEnd
  \/ SaveOpen \/ SaveWrite
  \/ Except

\* ENABLED Prepare: ResolvePath has a value for every item and directory
PrepareEnabled ==
  pc = "loop" /\ i <= Len(all_games) /\ ~SkipTest(all_games[i])

\* the steps from the head of the loop to the request are the Prepare steps
PrepareTaken == pc = "loop" /\ pc' = "fetch"

\* WF_vars(Prepare), written out with the two definitions above
FairPrepare == []<>~PrepareEnabled \/ []<><<PrepareTaken>>_vars

\* a started run is not held up for ever
SpecFair == Init /\ [][Next]_vars /\ WF_vars(Run) /\ FairPrepare

TypeOK ==
  /\ pc \in Live \cup Ended
  /\ durable.st \in {"absent", "ok", "malformed"}
  /\ i \in 1..(Len(all_games) + 1)

(***************************************************************************)
(* Observations shared by the properties                                   *)
(***************************************************************************)
\* attempts resolved so far in the run (successes plus failures)
Resolved == downloaded_count + failed_count

\* attempts resolved up to the last multiple of CheckpointEvery
Flushed == (Resolved \div CheckpointEvery) * CheckpointEvery

FailedUrls(rec) == { rec.failed[k].url : k \in 1..Len(rec.failed) }

OutcomeUrls == { outcomes[k].url : k \in 1..Len(outcomes) }

IsPrefix(s, t) == Len(s) <= Len(t) /\ SubSeq(t, 1, Len(s)) = s

\* the title under which the run attempts url
TitleOf(url) ==
  (CHOOSE g \in Range(all_games) : g.image_url = url).title

RECURSIVE Applied(_, _)
\* the record that results from rec by the resolved attempts outs
Applied(rec, outs) ==
  IF outs = <<>> THEN rec
  ELSE LET o == Head(outs)
       IN  Applied(IF o.ok
                   THEN [rec EXCEPT !.downloaded = Append(@, o.url)]
                   ELSE [rec EXCEPT !.failed =
                           Append(@, [title |-> TitleOf(o.url), url |-> o.url])],
                   Tail(outs))

\* the durable state holds the record rec (and possibly more)
DurableCovers(rec) ==
  /\ durable.st = "ok"
  /\ IsPrefix(rec.downloaded, durable.rec.downloaded)
  /\ IsPrefix(rec.failed, durable.rec.failed)

\* attempts of the run whose outcome the durable state does not hold
Missing ==
  Cardinality({ k \in 1..Len(outcomes) :
                  ~DurableCovers(Applied(loaded, SubSeq(outcomes, 1, k))) })

(***************************************************************************)
(* C1: across runs interrupted at any point, no image is fetched and       *)
(* written to a file a second time: the output directory never holds two   *)
(* files for the same sourceUrl.                                           *)
(***************************************************************************)
C1_ExactlyOnce ==
  \A f, g \in DOMAIN files :
    (f # g /\ files[f].complete /\ files[g].complete)
      => files[f].url # files[g].url

(***************************************************************************)
(* C2: idempotence.  When the previous run completed normally without a    *)
(* failure, the run that starts from the record it persisted makes no      *)
(* Fetcher call and no download, and at its end its skipped counter is the *)
(* previous run's downloaded counter plus the previous run's skipped       *)
(* counter.                                                                *)
(***************************************************************************)
C2_Idempotent ==
  (prev.completed /\ prev.failed = 0) =>
    /\ fetchCalls = 0
    /\ downloaded_count = 0
    /\ failed_count = 0
    /\ progress.downloaded = loaded.downloaded
    /\ (pc = "done" => skipped_count = prev.downloaded + prev.skipped)

\* a second run ends after a first run that itself started from a non-empty
\* record, downloaded something and skipped something
C2_Witness ==
  /\ pc = "done"
  /\ prev.completed
  /\ prev.failed = 0
  /\ prev.downloaded > 0
  /\ prev.skipped > 0
  /\ skipped_count = prev.downloaded + prev.skipped

(***************************************************************************)
(* C3: a final checkpoint save is performed on every exit path: when the   *)
(* loop is aborted by an exception, save_progress is still invoked before  *)
(* the run ends.                                                           *)
(***************************************************************************)
C3_FinalSaveOnAbort ==
  pc = "failed" => finalSaved

(***************************************************************************)
(* C4: save_progress is atomic with respect to termination: when the       *)
(* process is terminated, the durable progress state is a complete record  *)
(* (or the file does not exist yet), never an empty or truncated file.     *)
(***************************************************************************)
C4_AtomicSave ==
  pc = "dead" => durable.st # "malformed"

(***************************************************************************)
(* C5: checkpoint durability.  While the loop is in an attempt that        *)
(* follows 10 (20, ...) resolved attempts of the run, the durable state    *)
(* holds the record loaded at the start of the run extended by the         *)
(* outcomes of those 10 (20, ...) attempts.                                *)
(***************************************************************************)
C5_CheckpointDurable ==
  (pc \in {"fetch", "open", "write", "record"} /\ Flushed > 0) =>
    DurableCovers(Applied(loaded, SubSeq(outcomes, 1, Flushed)))

\* the 11th attempt starts after 10 resolved attempts, one of them a failure
C5_Witness ==
  /\ pc = "fetch"
  /\ Resolved = CheckpointEvery
  /\ failed_count > 0
  /\ durable.st = "ok"
  /\ Len(durable.rec.failed) > 0

(***************************************************************************)
(* C6: bounded loss window.  When a run is terminated, at most 9 attempts  *)
(* resolved in that run are missing from the durable progress state.       *)
(***************************************************************************)
C6_LossWindow ==
  pc = "dead" => Missing <= CheckpointEvery - 1

(***************************************************************************)
(* C7: failure retry eligibility.  Of the items the loop has passed, those *)
(* whose URL is in the loaded failed list but not in the loaded downloaded *)
(* list were given to the Fetcher, and exactly the items whose URL is in   *)
(* the loaded downloaded list were not.                                    *)
(***************************************************************************)
C7_FailedRetried ==
  \A k \in 1..Min(i - 1, Len(all_games)) :
    LET u == all_games[k].image_url
    IN  /\ (u \in FailedUrls(loaded) /\ u \notin Range(loaded.downloaded))
             => u \in OutcomeUrls
        /\ (u \in OutcomeUrls) <=> (u \notin Range(loaded.downloaded))

\* an item that the previous run recorded as failed has been attempted again
C7_Witness ==
  \E k \in 1..Min(i - 1, Len(all_games)) :
    LET u == all_games[k].image_url
    IN  /\ u \in FailedUrls(loaded)
        /\ u \notin Range(loaded.downloaded)
        /\ u \in OutcomeUrls

(***************************************************************************)
(* C8: rate ceiling.  A Fetcher call that is not the first of the run      *)
(* starts only after a full delay has elapsed since the previous one; each *)
(* resolved attempt, successful or failed, is followed by one delay before *)
(* the loop goes on, and skipped items take none; so the delays of a run   *)
(* are never fewer than its Fetcher calls minus one.                       *)
(***************************************************************************)
C8_RateCeiling ==
  /\ (pc = "fetch" /\ fetchCalls > 0) => sleptSinceFetch
  /\ delays >= fetchCalls - 1
  /\ (pc = "loop" \/ saveSite = "final") => delays = Resolved

\* the Fetcher is about to be called again after a failed attempt
C8_Witness ==
  /\ pc = "fetch"
  /\ fetchCalls > 0
  /\ failed_count > 0
  /\ delays = fetchCalls

(***************************************************************************)
(* C9: skip step.  For an item whose URL is in the downloaded list loaded  *)
(* at the start of the run, the step of the loop increments skipped and    *)
(* moves to the next item: no Fetcher call, no delay, no file, no          *)
(* checkpoint save, no change to the progress record.                      *)
(***************************************************************************)
C9_SkipFrame ==
  [][ ( /\ pc = "loop"
        /\ i <= Len(all_games)
        /\ all_games[i].image_url \in Range(loaded.downloaded)
        /\ pc' # "dead" )
      => ( /\ skipped_count' = skipped_count + 1
           /\ i' = i + 1
           /\ pc' = "loop"
           /\ UNCHANGED <<fetchCalls, delays, files, durable, progress,
                          downloaded_count, failed_count, outcomes>> ) ]_vars

\* an item has been skipped and the next one is about to be skipped
C9_Witness ==
  /\ pc = "loop"
  /\ skipped_count > 0
  /\ i <= Len(all_games)
  /\ all_games[i].image_url \in Range(loaded.downloaded)

(***************************************************************************)
(* C10: item-level errors never escalate.  An attempt that failed with a   *)
(* non-success status, a network exception or a file exception is counted *)
(* in failed, {title, url} is appended to progress.failed, the URL is not  *)
(* added to progress.downloaded, and the loop goes on; only a failing      *)
(* save_progress takes the run to the exception handler.                   *)
(***************************************************************************)
C10_ItemErrorsContained ==
  /\ [](failKind # "none" => (pc \in {"record", "dead"} /\ ~success))
  /\ [](pc = "except" => saveSite \in {"periodic", "final"})
  /\ [][ (pc = "record" /\ failKind \in {"http", "network", "file"} /\ pc' # "dead")
         => ( /\ failed_count' = failed_count + 1
              /\ downloaded_count' = downloaded_count
              /\ progress'.failed =
                   Append(progress.failed,
                          [title |-> all_games[i].title,
                           url |-> all_games[i].image_url])
              /\ progress'.downloaded = progress.downloaded
              /\ all_games[i].image_url \notin Range(progress'.downloaded)
              /\ pc' \in {"sleep", "save_open"} ) ]_vars

\* the delay follows an attempt whose file write raised
C10_Witness ==
  /\ pc = "sleep"
  /\ failed_count = 1
  /\ ~success
  /\ filepath \in DOMAIN files
  /\ ~files[filepath].complete
  /\ Len(progress.failed) = Len(loaded.failed) + 1

(***************************************************************************)
(* C11: collision-free path resolution.  The path of an attempt is the     *)
(* first of {stem}{ext}, {stem}-1{ext}, {stem}-2{ext}, ... that does not   *)
(* exist, and no step changes a file that exists, except the write of the  *)
(* attempt into the file it has just created.  When two items with         *)
(* distinct URLs have the same stem and extension and both succeed, the    *)
(* first is in {stem}{ext} and the second in {stem}-1{ext}.                *)
(***************************************************************************)
StemOf(game) == sanitize_filename(game.title)
ExtOf(game) == get_extension(game.image_url)

\* the n-th name tried for a game: n = 0 is the plain name
Candidate(game, n) ==
  IF n = 0 THEN FileName(StemOf(game), ExtOf(game))
  ELSE FileNameN(StemOf(game), n, ExtOf(game))

\* name is the first candidate of game that is not in the directory fs
FirstFree(name, game, fs) ==
  /\ name \notin DOMAIN fs
  /\ \E n \in 0..Cardinality(DOMAIN fs) :
       /\ name = Candidate(game, n)
       /\ \A m \in 0..(n - 1) : Candidate(game, m) \in DOMAIN fs

C11_PathIsFirstFree ==
  pc \in {"fetch", "open"} => FirstFree(filepath, all_games[i], files)

C11_NoOverwrite ==
  [][ \A f \in DOMAIN files :
        /\ f \in DOMAIN files'
        /\ \/ files'[f] = files[f]
           \/ /\ pc = "write"
              /\ f = filepath
              /\ f \notin DOMAIN files0
              /\ files[f] = PartialFile(all_games[i].image_url) ]_vars

\* items j < k of the list collide: same stem, same extension, distinct URLs
Collide(j, k) ==
  /\ j < k
  /\ StemOf(all_games[j]) = StemOf(all_games[k])
  /\ ExtOf(all_games[j]) = ExtOf(all_games[k])
  /\ all_games[j].image_url # all_games[k].image_url

\* the file name holds the complete image of url
Holds(name, url) == name \in DOMAIN files /\ files[name] = CompleteFile(url)

InPlainAndFirst(j, k) ==
  /\ Holds(Candidate(all_games[j], 0), all_games[j].image_url)
  /\ Holds(Candidate(all_games[k], 1), all_games[k].image_url)

\* the claim as stated: both items recorded as downloaded
C11_Original ==
  /\ C11_PathIsFirstFree
  /\ \A j, k \in 1..Len(all_games) :
       ( /\ Collide(j, k)
         /\ all_games[j].image_url \in Range(progress.downloaded)
         /\ all_games[k].image_url \in Range(progress.downloaded) )
       => InPlainAndFirst(j, k)

\* both items succeeded in this run, the two names were free when the run
\* started and hold nothing of another item
C11_FreshPair(j, k) ==
  /\ Collide(j, k)
  /\ [url |-> all_games[j].image_url, ok |-> TRUE] \in Range(outcomes)
  /\ [url |-> all_games[k].image_url, ok |-> TRUE] \in Range(outcomes)
  /\ \A n \in {0, 1} :
       LET name == Candidate(all_games[j], n)
       IN  /\ name \notin DOMAIN files0
           /\ name \in DOMAIN files =>
                files[name].url \in {all_games[j].image_url,
                                     all_games[k].image_url}

C11_CollisionFree ==
  /\ [] C11_PathIsFirstFree
  /\ C11_NoOverwrite
  /\ [] (\A j, k \in 1..Len(all_games) :
           C11_FreshPair(j, k) => InPlainAndFirst(j, k))

\* two colliding items have both been written
C11_Witness ==
  \E j, k \in 1..Len(all_games) :
    C11_FreshPair(j, k) /\ InPlainAndFirst(j, k)

(***************************************************************************)
(* C12: every sourceUrl in progress.downloaded, in memory and in the       *)
(* durable record, has its file in the output directory, in every state of *)
(* every sequence of runs, interrupted runs included.                      *)
(***************************************************************************)
HasFile(url) == \E f \in DOMAIN files : files[f] = CompleteFile(url)

C12_DownloadedHaveFiles ==
  \A u \in Range(progress.downloaded) \cup Range(durable.rec.downloaded) :
    HasFile(u)

\* a run is interrupted with downloads on record, some saved and some not
C12_Witness ==
  /\ pc = "dead"
  /\ durable.st = "ok"
  /\ Len(durable.rec.downloaded) > 0
  /\ Len(progress.downloaded) > Len(durable.rec.downloaded)

(***************************************************************************)
(* C13: dedup by URL.  The list the loop iterates holds each sourceUrl     *)
(* once, holds for each URL its first occurrence on the page (with that    *)
(* occurrence's title), in the order of first occurrence, and its length   *)
(* (the reported total) is the number of distinct URLs; the page           *)
(* [(A,u1),(B,u1),(C,u2)] gives [(A,u1),(C,u2)].                           *)
(***************************************************************************)
\* the run has extracted its list from the page
Extracted == all_games # <<>> \/ (page_games = <<>> /\ pc = "done")

\* index of the first cover of the page with the given URL
FirstAt(url) ==
  CHOOSE k \in 1..Len(page_games) :
    /\ page_games[k].image_url = url
    /\ \A j \in 1..(k - 1) : page_games[j].image_url # url

PageUrls == { page_games[k].image_url : k \in 1..Len(page_games) }

ExampleA == Game(<<"A">>, <<"u","1">>)
ExampleB == Game(<<"B">>, <<"u","1">>)
ExampleC == Game(<<"C">>, <<"u","2">>)

C13_DedupByUrl ==
  /\ Dedup(<<ExampleA, ExampleB, ExampleC>>) = <<ExampleA, ExampleC>>
  /\ Extracted =>
       /\ \A j, k \in 1..Len(all_games) :
            j # k => all_games[j].image_url # all_games[k].image_url
       /\ { all_games[k].image_url : k \in 1..Len(all_games) } = PageUrls
       /\ \A k \in 1..Len(all_games) :
            all_games[k] = page_games[FirstAt(all_games[k].image_url)]
       /\ \A j, k \in 1..Len(all_games) :
            j < k => FirstAt(all_games[j].image_url) < FirstAt(all_games[k].image_url)
       /\ Len(all_games) = Cardinality(PageUrls)

\* a run over a page that lists one URL twice, under two titles, has ended
C13_Witness ==
  /\ pc = "done"
  /\ Len(page_games) = 3
  /\ page_games[1].image_url = page_games[2].image_url
  /\ page_games[1].title # page_games[2].title
  /\ page_games[3].image_url # page_games[1].image_url
  /\ all_games = <<page_games[1], page_games[3]>>
  /\ downloaded_count = 2

(***************************************************************************)
(* C14: sanitize maps the titles "Mega Man" and "mega   man!!" to the stem *)
(* "mega-man"; titles that differ only in letter case and whitespace run   *)
(* length get the same stem.                                               *)
(***************************************************************************)
TitleMegaMan == <<"M","e","g","a"," ","M","a","n">>
TitleMegaManBang == <<"m","e","g","a"," "," "," ","m","a","n","!","!">>
StemMegaMan == <<"m","e","g","a","-","m","a","n">>
StemMegaManBang == <<"m","e","g","a","-","m","a","n","!","!">>

\* a title up to letter case and the length of its whitespace runs
CaseSpaceNorm(t) == Lower(SubRuns(t, Spaces, " "))

\* the claim as stated, on the title the loop is working on
C14_Original ==
  (pc = "fetch" /\ all_games[i].title \in {TitleMegaMan, TitleMegaManBang})
    => sanitize_filename(all_games[i].title) = StemMegaMan

C14_Sanitize ==
  /\ pc = "fetch" =>
       /\ all_games[i].title = TitleMegaMan
            => sanitize_filename(all_games[i].title) = StemMegaMan
       /\ all_games[i].title = TitleMegaManBang
            => sanitize_filename(all_games[i].title) = StemMegaManBang
  /\ \A g, h \in Range(page_games) :
       CaseSpaceNorm(g.title) = CaseSpaceNorm(h.title)
         => sanitize_filename(g.title) = sanitize_filename(h.title)

\* both titles have been sanitized and their images written
C14_Witness ==
  /\ \E g \in Range(all_games) :
       /\ g.title = TitleMegaMan
       /\ Holds(Join(StemMegaMan) \o Join(ExtOf(g)), g.image_url)
  /\ \E g \in Range(all_games) :
       /\ g.title = TitleMegaManBang
       /\ Holds(Join(StemMegaManBang) \o Join(ExtOf(g)), g.image_url)
  /\ \E g, h \in Range(page_games) :
       /\ g.title # h.title
       /\ CaseSpaceNorm(g.title) = CaseSpaceNorm(h.title)

(***************************************************************************)
(* C15: a progress file that cannot be parsed is fatal at load: the run    *)
(* ends there, before any Fetcher call, without writing a file to the      *)
(* output directory and without overwriting or resetting the progress file.*)
(***************************************************************************)
C15_MalformedFatal ==
  /\ [] (pc = "fatal" =>
           /\ durable = Malformed
           /\ fetchCalls = 0
           /\ outcomes = <<>>
           /\ files = files0
           /\ progress = EmptyRec
           /\ saveSite = "none")
  /\ [][ (pc = "start" /\ durable.st = "malformed" /\ pc' # "dead")
         => (pc' = "fatal" /\ UNCHANGED <<durable, files>>) ]_vars

\* a run has ended at load, with images of earlier runs in the directory
C15_Witness ==
  /\ pc = "fatal"
  /\ durable.st = "malformed"
  /\ DOMAIN files # {}

(***************************************************************************)
(* C16: empty item list.  A run whose extractor yields no item makes no    *)
(* Fetcher call, has all counters at zero, and has called save_progress    *)
(* once when it ends.                                                      *)
(***************************************************************************)
C16_EmptyListSaves ==
  (pc = "done" /\ all_games = <<>>) =>
    /\ fetchCalls = 0
    /\ downloaded_count = 0
    /\ skipped_count = 0
    /\ failed_count = 0
    /\ finalSaved
    /\ durable = Stored(progress)

(***************************************************************************)
(* C17: progress.downloaded stays duplicate-free, in memory and in the     *)
(* durable record, over any sequence of complete or interrupted runs,      *)
(* although the membership set built at load time is not updated during    *)
(* the run.                                                                *)
(***************************************************************************)
NoRepeat(s) == \A j, k \in 1..Len(s) : j # k => s[j] # s[k]

C17_NoDuplicates ==
  /\ NoRepeat(progress.downloaded)
  /\ NoRepeat(durable.rec.downloaded)
  /\ downloaded_set \subseteq Range(progress.downloaded)

\* a run that loaded a non-empty record has appended to it and saved it, the
\* membership set still being the loaded one; the page repeats a URL
C17_Witness ==
  /\ Len(loaded.downloaded) > 0
  /\ Len(progress.downloaded) > Len(loaded.downloaded)
  /\ downloaded_set # Range(progress.downloaded)
  /\ Len(page_games) > Len(all_games)
  /\ all_games # <<>>
  /\ durable = Stored(progress)

(***************************************************************************)
(* C18: counter conservation.  After each iteration downloaded_count +     *)
(* skipped_count + failed_count is the number of items processed, so at    *)
(* normal completion it is the total; the URLs appended to                 *)
(* progress.downloaded in the run are downloaded_count many, the entries   *)
(* appended to progress.failed are failed_count many.                      *)
(***************************************************************************)
Counted == downloaded_count + skipped_count + failed_count

\* the loop is between two iterations, or over
BetweenItems ==
  \/ pc = "loop"
  \/ (pc \in {"save_open", "save_write", "done"} /\ saveSite = "final")

C18_CounterConservation ==
  /\ BetweenItems => Counted = i - 1
  /\ pc \in {"fetch", "open", "write", "record"} => Counted = i - 1
  /\ pc = "sleep" => Counted = i
  /\ (pc \in {"save_open", "save_write"} /\ saveSite = "periodic") => Counted = i
  /\ (pc = "done" /\ all_games # <<>>) => Counted = Len(all_games)
  /\ skipped_count =
       Cardinality({ k \in 1..Min(i - 1, Len(all_games)) :
                       all_games[k].image_url \in Range(loaded.downloaded) })
  /\ downloaded_count = Cardinality({ k \in 1..Len(outcomes) : outcomes[k].ok })
  /\ failed_count = Cardinality({ k \in 1..Len(outcomes) : ~outcomes[k].ok })
  /\ Len(progress.downloaded) = Len(loaded.downloaded) + downloaded_count
  /\ Len(progress.failed) = Len(loaded.failed) + failed_count

\* a run with a success and a failure has completed
C18_Witness ==
  /\ pc = "done"
  /\ downloaded_count > 0
  /\ failed_count > 0
  /\ Counted = Len(all_games)

(***************************************************************************)
(* C19: progress is append-only within a run.  No step of the download     *)
(* loop removes or reorders an entry of progress.downloaded or             *)
(* progress.failed; a successful attempt leaves progress.failed unchanged  *)
(* and a failed attempt leaves progress.downloaded unchanged, so an entry  *)
(* in failed for a URL is still there after the URL has been downloaded.   *)
(***************************************************************************)
\* the run is inside the download loop of lines 316-358
InLoop ==
  pc \in {"loop", "fetch", "open", "write", "record", "sleep",
          "save_open", "save_write"}

\* the step records the outcome of an attempt (lines 341-348)
Recorded == pc = "record" /\ Len(outcomes') = Len(outcomes) + 1

C19_LoopStep ==
  InLoop =>
    /\ IsPrefix(progress.downloaded, progress'.downloaded)
    /\ IsPrefix(progress.failed, progress'.failed)
    /\ (Recorded /\ success) =>
         /\ progress'.failed = progress.failed
         /\ progress'.downloaded =
              Append(progress.downloaded, all_games[i].image_url)
    /\ (Recorded /\ ~success) =>
         /\ progress'.downloaded = progress.downloaded
         /\ Len(progress'.failed) = Len(progress.failed) + 1

\* what was loaded stays in front of what the run holds
C19_LoadedKept ==
  (InLoop \/ pc \in {"done", "except", "failed", "dead"}) =>
    /\ IsPrefix(loaded.downloaded, progress.downloaded)
    /\ IsPrefix(loaded.failed, progress.failed)

C19_AppendOnly == [][C19_LoopStep]_vars /\ []C19_LoadedKept

\* a URL that failed in an earlier run has been downloaded in this one
C19_Witness ==
  /\ InLoop
  /\ \E k \in 1..Len(outcomes) :
       /\ outcomes[k].ok
       /\ outcomes[k].url \in FailedUrls(loaded)
       /\ outcomes[k].url \in FailedUrls(progress)
       /\ outcomes[k].url \in Range(progress.downloaded)

(***************************************************************************)
(* C20: termination.  With a finite list, a fetcher that always returns    *)
(* and no save error, the loop processes every item exactly once in list   *)
(* order (each skipped or attempted once, never retried within the run),   *)
(* the collision search ends for every item, and the run reaches the       *)
(* final save.                                                             *)
(***************************************************************************)
\* the longest list of the short pages
MaxItems == 3

\* the run was cut short: a save raised (lines 370-372) or the process died
CutShort == pc \in {"except", "failed", "dead"}

\* the items the loop has taken up and finished with
Passed == IF pc = "sleep" \/ (pc \in {"save_open", "save_write"} /\ saveSite = "periodic")
          THEN i ELSE i - 1

\* the URLs among the first n items that the skip test lets through
ToAttempt(n) ==
  LET urls == [k \in 1..n |-> all_games[k].image_url]
  IN  SelectSeq(urls, LAMBDA u : u \notin downloaded_set)

\* the URLs attempted so far, in the order of the attempts
AttemptedUrls == [k \in 1..Len(outcomes) |-> outcomes[k].url]

\* each item passed was skipped or attempted once, in list order
C20_OnceInOrder ==
  (InLoop \/ pc = "done") =>
    /\ Passed \in 0..Len(all_games)
    /\ AttemptedUrls = ToAttempt(Passed)
    /\ skipped_count + Len(outcomes) = Passed
    /\ NoRepeat(AttemptedUrls)
    /\ pc = "done" => Passed = Len(all_games)

\* the index moves forward one item at a time
C20_Forward ==
  (InLoop /\ pc' # "start") => i' \in {i, i + 1}

\* the search of lines 332-334 has ended within one probe per file
C20_SearchEnds ==
  pc = "fetch" =>
    /\ filepath \notin DOMAIN files
    /\ \E n \in 0..Cardinality(DOMAIN files) :
         filepath = Candidate(all_games[i], n)

\* every item taken up is left behind, and the run gets to its last save
C20_GetsThere ==
  /\ \A k \in 1..MaxItems :
       (pc = "loop" /\ i = k /\ k <= Len(all_games)) ~> (i = k + 1 \/ CutShort)
  /\ pc = "start" ~> ((finalSaved /\ pc = "done") \/ pc = "fatal" \/ CutShort
                      \/ (pc = "done" /\ all_games = <<>>))

C20_Termination ==
  /\ []C20_OnceInOrder
  /\ [][C20_Forward]_vars
  /\ []C20_SearchEnds
  /\ C20_GetsThere

\* a run of three items, one of them failed, has made its final save
C20_Witness ==
  /\ pc = "done"
  /\ finalSaved
  /\ Len(all_games) = 3
  /\ skipped_count + Len(outcomes) = 3
  /\ failed_count = 1

====
